---- MODULE Spec2Model ----
(***************************************************************************)
(* Model of the rsocket-go transport dispatcher (package transport:        *)
(* Transport.Close / ReadFirst / Start / DispatchFrame and the Handle*     *)
(* registrations) and of the CANCEL and REQUEST_N frame codecs (package    *)
(* framing).  nSetup, calls and handled record what the reader did; the    *)
(* program keeps no such fields.                                           *)
(*                                                                         *)
(* Two specifications share the module:                                    *)
(*   Spec       the transport: one reader goroutine running Start, the     *)
(*              goroutines that call Close, the context, the peer that     *)
(*              supplies the frames conn.Read returns;                     *)
(*   SpecFrame  the frame codecs as pure functions applied to inputs drawn *)
(*              from bounded sets.                                         *)
(* Time is counted in abstract units; time.Time's zero value (no deadline) *)
(* is 0 and the clock starts at 1.                                         *)
(***************************************************************************)
EXTENDS Integers, Sequences, FiniteSets, TLC

\* ---------------------------------------------------------------- bounds
\* frames the peer delivers before the connection ends
MaxFrames == 2

\* ----------------------------------------------------------------- inputs
\* values carried in a frame field (SETUP max lifetime, positions)
Vals == { 0, 1 }
\* stream ids the peer uses: the connection's and a stream's
StreamIDs == { 0, 1 }
\* readings of the clock
Times == { 1, 2 }

\* longest body of a decoded frame
MaxBodyLen == 5

\* frames producers put on a client socket's outbound queue
MaxQueued == 2

\* DoOnSuccess callbacks, and DoOnError callbacks, registered on a Mono
MaxHooks == 2

\* ------------------------------------------------------- program constants
\* common.DefaultKeepaliveMaxLifetime (90 s), in units of 30 s
DefaultKeepaliveMaxLifetime == 3
\* core.FrameHeaderLen: 4 bytes of stream id, 2 bytes of type and flags
FrameHeaderLen == 6

\* ------------------------------------------------------------ frame types
\* the frame types DispatchFrame's switch has a case for
KnownTypes ==
  { "SETUP", "RESUME", "RESUME_OK", "REQUEST_FNF", "METADATA_PUSH",
    "REQUEST_RESPONSE", "REQUEST_STREAM", "REQUEST_CHANNEL", "PAYLOAD",
    "REQUEST_N", "ERROR", "CANCEL", "KEEPALIVE", "LEASE" }

\* frame types of the protocol the switch has no case for
UnknownTypes == { "RESERVED", "EXT" }

FrameTypes == KnownTypes \cup UnknownTypes

\* the frame types whose body carries a value DispatchFrame reads
ValueTypes == { "SETUP", "RESUME_OK", "KEEPALIVE" }

\* What conn.Read can return: the header's type, stream id and IGNORE flag,
\* and the body field DispatchFrame reads (0 where it reads none).
Frames ==
  { f \in [ type : FrameTypes, sid : StreamIDs, ignore : BOOLEAN, val : Vals ] :
      /\ (f.type \notin ValueTypes => f.val = 0)
      /\ (f.type \in KnownTypes => ~f.ignore) }

NoFrame == [ type |-> "none", sid |-> 0, ignore |-> FALSE, val |-> 0 ]

\* ---------------------------------------------------------------- handlers
\* the FrameHandler fields of Transport, in the order of their Handle* methods
HandlerOrder ==
  << "hError0", "hSetup", "hResume", "hLease", "hResumeOK", "hFireAndForget",
     "hMetadataPush", "hRequestResponse", "hRequestStream", "hRequestChannel",
     "hPayload", "hRequestN", "hError", "hCancel", "hKeepalive" >>

Handlers == { HandlerOrder[i] : i \in 1..Len(HandlerOrder) }

VARIABLES
  handlers,     \* the FrameHandler fields that are non-nil
  maxLifetime,  \* Transport.maxLifetime
  lastRcvPos,   \* Transport.lastRcvPos
  once,         \* Transport.once has run
  connClosed,   \* number of calls of conn.Close
  closeCalled,  \* Transport.Close has been called
  deadline,     \* the deadline last given to conn.SetDeadline, 0 for none
  now,          \* the last reading of time.Now
  ctxDone,      \* the context given to Start and ReadFirst is cancelled
  first,        \* ReadFirst: "none" not called, "ok" a frame, "err" an error
  pc,           \* the reader: "new", "loop", "dispatch", "exit", "done"
  nRead,        \* frames conn.Read returned to Start
  frame,        \* the frame Start read last
  lerr,         \* Start's loop-local err: result of the last Read or DispatchFrame
  err,          \* Start's named result err
  calls,        \* the frame numbers for which a handler was invoked, in order
  handled,      \* the handler invoked for the frame dispatched last, "nil" if none
  nSetup,       \* SETUP frames handed to DispatchFrame so far
  fop,          \* SpecFrame: the codec function applied
  fin,          \* SpecFrame: its input
  fout,         \* SpecFrame: its result
  snd,          \* SpecSend: one call of Transport.Send
  cli,          \* SpecClient: defaultClientSocket.Setup and its goroutines
  mono          \* SpecMono: a Mono proxy, its callbacks, Block and ToChan

tvars == << handlers, maxLifetime, lastRcvPos, once, connClosed, closeCalled,
            deadline, now, ctxDone, first, pc, nRead, frame, lerr, err, calls, handled, nSetup >>
fvars == << fop, fin, fout >>
ovars == << snd, cli, mono >>
vars == << handlers, maxLifetime, lastRcvPos, once, connClosed, closeCalled,
           deadline, now, ctxDone, first, pc, nRead, frame, lerr, err, calls, handled,
           nSetup, fop, fin, fout, snd, cli, mono >>

\* ------------------------------------------------------------ frame values
\* a uint32 as its two 16-bit halves
U32(hi, lo) == [ hi |-> hi, lo |-> lo ]

\* a byte buffer: nil, or its bytes
NilBody == [ isNil |-> TRUE, bytes |-> << >> ]
Buff(bs) == [ isNil |-> FALSE, bytes |-> bs ]

\* the bytes a received body is made of
ByteSamples == { 0, 255 }

\* the byte sequences of length n
RECURSIVE BytesOfLen(_)
BytesOfLen(n) ==
  IF n = 0 THEN { << >> }
  ELSE { Append(bs, b) : bs \in BytesOfLen(n - 1), b \in ByteSamples }

\* the bodies a decoded frame may have
Bodies == { NilBody } \cup { Buff(bs) : bs \in UNION { BytesOfLen(k) : k \in 0..MaxBodyLen } }

\* stream ids and request counts given to the constructors
SidSamples == { U32(0, 0), U32(0, 1), U32(32767, 65535) }
NSamples == { U32(hi, lo) : hi \in { 0, 32767, 32768, 65535 }, lo \in { 0, 1, 65535 } }

\* arguments of SetLifetime (a time.Duration is signed)
Lifetimes == { -1, 0, 2 }

\* writers by the number of bytes they take before they fail
WriterCaps == { 0, 3, 6, 8 }

\* what a codec function is applied to
Inputs == [ sid : SidSamples, n : NSamples, body : Bodies, cap : WriterCaps ]

NoInput == [ sid |-> U32(0, 0), n |-> U32(0, 0), body |-> NilBody, cap |-> 0 ]
NoFrameValue == [ sid |-> U32(0, 0), type |-> "none", flags |-> 0, body |-> NilBody ]
NoOutput ==
  [ frame |-> NoFrameValue, err |-> "nil", n |-> U32(0, 0), len |-> 0, wrote |-> << >>,
    data |-> << >>, panic |-> FALSE ]

\* Send, the client socket and the Mono when they are not exercised
OthersIdle ==
  /\ snd = [ pc |-> "idle" ]
  /\ cli = [ pc |-> "idle" ]
  /\ mono = [ pc |-> "idle" ]

\* the codec variables when the codecs are not exercised
FrameIdle == fop = "idle" /\ fin = NoInput /\ fout = NoOutput

\* newTransportClient: a connection, the default max lifetime, nothing else set
newTransportClient ==
  /\ handlers = {}
  /\ maxLifetime = DefaultKeepaliveMaxLifetime
  /\ lastRcvPos = 0
  /\ once = FALSE
  /\ connClosed = 0
  /\ closeCalled = FALSE
  /\ deadline = 0
  /\ now = 1
  /\ ctxDone = FALSE
  /\ first = "none"
  /\ pc = "new"
  /\ nRead = 0
  /\ frame = NoFrame
  /\ lerr = "nil"
  /\ err = "nil"
  /\ calls = << >>
  /\ handled = "nil"
  /\ nSetup = 0

Init == newTransportClient /\ FrameIdle /\ OthersIdle

\* ------------------------------------------------------------------ Close
\* once.Do(func() { err = p.conn.Close() }) without the once guard
CloseEffectNoOnce ==
  /\ once' = TRUE
  /\ connClosed' = connClosed + 1

\* Transport.Close: once.Do(func() { err = p.conn.Close() })
CloseEffect ==
  IF once
    THEN UNCHANGED << once, connClosed >>
    ELSE /\ once' = TRUE
         /\ connClosed' = connClosed + 1

\* Transport.Close called by a goroutine other than the reader
Close ==
  /\ CloseEffect
  /\ closeCalled' = TRUE
  /\ UNCHANGED << handlers, maxLifetime, lastRcvPos, deadline, now, ctxDone,
                  first, pc, nRead, frame, lerr, err, calls, handled, nSetup >>
  /\ UNCHANGED << fvars, ovars >>

\* the context is cancelled
Cancel ==
  /\ ~ctxDone
  /\ ctxDone' = TRUE
  /\ UNCHANGED << handlers, maxLifetime, lastRcvPos, once, connClosed, closeCalled,
                  deadline, now, first, pc, nRead, frame, lerr, err, calls, handled, nSetup >>
  /\ UNCHANGED << fvars, ovars >>

\* ------------------------------------------------------------ registration
\* HandleDisaster, HandleSetup, ..., HandleKeepalive: p.h<X> = handler.
\* The socket registers before it starts the reader, in the order of HandlerOrder.
Handle(i) ==
  /\ pc = "new"
  /\ HandlerOrder[i] \notin handlers
  /\ \A j \in 1..(i - 1) : HandlerOrder[j] \in handlers
  /\ handlers' = handlers \cup { HandlerOrder[i] }
  /\ UNCHANGED << maxLifetime, lastRcvPos, once, connClosed, closeCalled, deadline,
                  now, ctxDone, first, pc, nRead, frame, lerr, err, calls, handled, nSetup >>
  /\ UNCHANGED << fvars, ovars >>

\* SetLifetime: if lifetime < 1 { return }; p.maxLifetime = lifetime.
\* The client socket calls it before it starts the reader (Setup, line 23).
SetLifetime ==
  /\ pc = "new"
  /\ \E lifetime \in Lifetimes :
       maxLifetime' = IF lifetime < 1 THEN maxLifetime ELSE lifetime
  /\ UNCHANGED << handlers, lastRcvPos, once, connClosed, closeCalled, deadline,
                  now, ctxDone, first, pc, nRead, frame, lerr, err, calls, handled, nSetup >>
  /\ UNCHANGED << fvars, ovars >>

\* -------------------------------------------------------------- ReadFirst
\* ReadFirst: ctx.Err() when the context is done, else conn.Read; Close on error.
\* A closed connection yields only errors.
ReadFirst ==
  /\ pc = "new"
  /\ first = "none"
  /\ \E ok \in BOOLEAN :
       /\ (ok => ~ctxDone /\ connClosed = 0)
       /\ IF ok
            THEN /\ first' = "ok"
                 /\ UNCHANGED << once, connClosed, closeCalled >>
            ELSE /\ first' = "err"
                 /\ CloseEffect
                 /\ closeCalled' = TRUE
  /\ UNCHANGED << handlers, maxLifetime, lastRcvPos, deadline, now, ctxDone,
                  pc, nRead, frame, lerr, err, calls, handled, nSetup >>
  /\ UNCHANGED << fvars, ovars >>

\* ---------------------------------------------------------- DispatchFrame
\* the switch on the frame type: the handler field it selects, "nil" when no
\* case matches
SwitchHandler(t) ==
  CASE t = "SETUP" -> "hSetup"
    [] t = "RESUME" -> "hResume"
    [] t = "RESUME_OK" -> "hResumeOK"
    [] t = "REQUEST_FNF" -> "hFireAndForget"
    [] t = "METADATA_PUSH" -> "hMetadataPush"
    [] t = "REQUEST_RESPONSE" -> "hRequestResponse"
    [] t = "REQUEST_STREAM" -> "hRequestStream"
    [] t = "REQUEST_CHANNEL" -> "hRequestChannel"
    [] t = "PAYLOAD" -> "hPayload"
    [] t = "REQUEST_N" -> "hRequestN"
    [] t = "ERROR" -> "hError"
    [] t = "CANCEL" -> "hCancel"
    [] t = "KEEPALIVE" -> "hKeepalive"
    [] t = "LEASE" -> "hLease"
    [] OTHER -> "nil"

\* case FrameTypeSetup: p.maxLifetime = frame.MaxLifetime()
SwitchLifetime(f, ml) == IF f.type = "SETUP" THEN f.val ELSE ml

\* case FrameTypeResumeOK left out
SwitchRcvPosKeepaliveOnly(f, pos) ==
  IF f.type = "KEEPALIVE" THEN f.val ELSE pos

\* case FrameTypeResumeOK, case FrameTypeKeepalive: p.lastRcvPos = ...
SwitchRcvPos(f, pos) ==
  IF f.type \in { "RESUME_OK", "KEEPALIVE" } THEN f.val ELSE pos

\* the sid == 0 test of case FrameTypeError dropped
IsDisasterAnySid(f) == f.type = "ERROR"

\* case FrameTypeError without its sid == 0 branch
IsDisasterNever(f) == FALSE

\* case FrameTypeMetadataPush without its sid != 0 branch
OmitMetadataPushNever(f) == FALSE

\* case FrameTypeMetadataPush: if sid != 0 { warn; return }
OmitMetadataPush(f) == f.type = "METADATA_PUSH" /\ f.sid # 0

\* case FrameTypeError: if sid == 0 { ...; return }
IsDisaster(f) == f.type = "ERROR" /\ f.sid = 0

\* the handler DispatchFrame triggers for f: the selected field if it is set
Trigger(f, hs) ==
  IF SwitchHandler(f.type) \in hs THEN SwitchHandler(f.type) ELSE "nil"

\* Start's loop carrying on whatever DispatchFrame returned
AfterDispatchContinue(e) == "loop"

\* Start, after DispatchFrame: if err != nil { break L }
AfterDispatch(e) == IF e = "nil" THEN "loop" ELSE "exit"

\* DispatchFrame(ctx, frame), called by Start with the frame it just read;
\* its result is the loop's err.
DispatchFrame ==
  /\ pc = "dispatch"
  /\ IF OmitMetadataPush(frame)
       THEN /\ lerr' = "nil"
            /\ handled' = "nil"
            /\ UNCHANGED << maxLifetime, lastRcvPos, deadline, now, calls >>
     ELSE IF IsDisaster(frame)
       THEN /\ lerr' = "disaster"
            /\ handled' = IF "hError0" \in handlers THEN "hError0" ELSE "nil"
            /\ calls' = IF "hError0" \in handlers THEN Append(calls, nRead) ELSE calls
            /\ UNCHANGED << maxLifetime, lastRcvPos, deadline, now >>
     ELSE /\ maxLifetime' = SwitchLifetime(frame, maxLifetime)
          /\ lastRcvPos' = SwitchRcvPos(frame, lastRcvPos)
          /\ \E t \in { x \in Times : x >= now }, set \in BOOLEAN :
               \* time.Now(), conn.SetDeadline: fails on a closed connection
               /\ now' = t
               /\ (set => connClosed = 0)
               /\ IF ~set
                    THEN /\ lerr' = "deadline"
                         /\ handled' = "nil"
                         /\ UNCHANGED << deadline, calls >>
                  ELSE IF Trigger(frame, handlers) = "nil"
                    THEN /\ deadline' = t + maxLifetime'
                         /\ lerr' = "missing"
                         /\ handled' = "nil"
                         /\ UNCHANGED calls
                  ELSE /\ deadline' = t + maxLifetime'
                       /\ handled' = Trigger(frame, handlers)
                       /\ calls' = Append(calls, nRead)
                       /\ lerr' \in { "nil", "handler" }
  /\ nSetup' = IF frame.type = "SETUP" THEN nSetup + 1 ELSE nSetup
  /\ pc' = AfterDispatch(lerr')
  /\ UNCHANGED << handlers, once, connClosed, closeCalled, ctxDone, first, nRead,
                  frame, err >>
  /\ UNCHANGED << fvars, ovars >>

\* ------------------------------------------------------------------ Start
\* Start is called: the defer is registered and the loop entered
Start ==
  /\ pc = "new"
  /\ pc' = "loop"
  /\ UNCHANGED << handlers, maxLifetime, lastRcvPos, once, connClosed, closeCalled,
                  deadline, now, ctxDone, first, nRead, frame, lerr, err, calls, handled, nSetup >>
  /\ UNCHANGED << fvars, ovars >>

\* the select of the loop: ctx.Done, else conn.Read. A closed connection
\* yields only errors; an error breaks the loop.
LoopRead ==
  /\ pc = "loop"
  /\ IF ctxDone
       THEN /\ err' = "ctx"
            /\ pc' = "exit"
            /\ UNCHANGED << nRead, frame, lerr >>
       ELSE /\ UNCHANGED err
            /\ \/ /\ nRead < MaxFrames
                  /\ connClosed = 0
                  /\ \E f \in Frames : frame' = f
                  /\ nRead' = nRead + 1
                  /\ lerr' = "nil"
                  /\ pc' = "dispatch"
               \/ /\ lerr' \in { "EOF", "readerr" }
                  /\ pc' = "exit"
                  /\ UNCHANGED << nRead, frame >>
  /\ UNCHANGED << handlers, maxLifetime, lastRcvPos, once, connClosed, closeCalled,
                  deadline, now, ctxDone, first, calls, handled, nSetup >>
  /\ UNCHANGED << fvars, ovars >>

\* lines 172-179 after the loop, on the named result err (the loop's err is
\* another variable, declared by := inside the default case)
AfterLoop(e) ==
  IF e = "EOF" THEN "nil" ELSE IF e # "nil" THEN "wrapped" ELSE "nil"

\* Start returns: after a break the code after the loop runs, after the
\* ctx.Done case it does not; then the deferred Close.
StartReturn ==
  /\ pc = "exit"
  /\ err' = IF lerr # "nil" THEN AfterLoop(err) ELSE err
  /\ CloseEffect
  /\ closeCalled' = TRUE
  /\ pc' = "done"
  /\ UNCHANGED << handlers, maxLifetime, lastRcvPos, deadline, now, ctxDone,
                  first, nRead, frame, lerr, calls, handled, nSetup >>
  /\ UNCHANGED << fvars, ovars >>

Next ==
  \/ \E i \in 1..Len(HandlerOrder) : Handle(i)
  \/ SetLifetime
  \/ ReadFirst
  \/ Start
  \/ LoopRead
  \/ DispatchFrame
  \/ StartReturn
  \/ Close
  \/ Cancel

Spec == Init /\ [][Next]_vars

TypeOK ==
  /\ handlers \subseteq Handlers
  /\ maxLifetime \in Vals \cup Lifetimes \cup { DefaultKeepaliveMaxLifetime }
  /\ lastRcvPos \in Vals
  /\ once \in BOOLEAN
  /\ closeCalled \in BOOLEAN
  /\ ctxDone \in BOOLEAN
  /\ first \in { "none", "ok", "err" }
  /\ pc \in { "new", "loop", "dispatch", "exit", "done" }
  /\ nRead \in 0..MaxFrames
  /\ frame \in Frames \cup { NoFrame }
  /\ lerr \in { "nil", "EOF", "readerr", "disaster", "deadline", "missing", "handler" }
  /\ err \in { "nil", "ctx", "wrapped" }
  /\ handled \in Handlers \cup { "nil" }
  /\ nSetup \in 0..nRead

\* ------------------------------------------------------------ frame codecs
\* the four bytes least significant first
PutUint32LittleEndian(n) ==
  << n.lo % 256, n.lo \div 256, n.hi % 256, n.hi \div 256 >>

\* binary.BigEndian.PutUint32
PutUint32(n) == << n.hi \div 256, n.hi % 256, n.lo \div 256, n.lo % 256 >>

\* binary.BigEndian.Uint32 of the first four bytes
Uint32(bs) == U32(bs[1] * 256 + bs[2], bs[3] * 256 + bs[4])

\* ByteBuff.Len
BuffLen(body) == IF body.isNil THEN 0 ELSE Len(body.bytes)

\* the 6-bit code of a frame type
TypeCode(t) ==
  CASE t = "REQUEST_N" -> 8
    [] t = "CANCEL" -> 9
    [] OTHER -> 0

\* the header on the wire: the stream id, then (type << 10) | flags
HeaderBytes(f) ==
  PutUint32(f.sid)
    \o << (TypeCode(f.type) * 1024 + f.flags) \div 256,
          (TypeCode(f.type) * 1024 + f.flags) % 256 >>

\* header.WriteTo(w) on a writer that takes cap bytes
HeaderWriteTo(f, cap) ==
  IF cap >= Len(HeaderBytes(f))
    THEN [ wrote |-> HeaderBytes(f), n |-> Len(HeaderBytes(f)), err |-> "nil" ]
    ELSE [ wrote |-> SubSeq(HeaderBytes(f), 1, cap), n |-> cap, err |-> "werr" ]

\* CancelFrame.Validate with the body check dropped to a nil check
CancelValidateNilOnly(body) ==
  IF ~body.isNil THEN "errIncompleteFrame" ELSE "nil"

\* CancelFrame.Validate: if f.body != nil && f.body.Len() > 0
CancelValidate(body) ==
  IF ~body.isNil /\ BuffLen(body) > 0 THEN "errIncompleteFrame" ELSE "nil"

\* FrameCancel.Validate: if p.body != nil && p.body.Len() > 0
FrameCancelValidate(body) ==
  IF ~body.isNil /\ BuffLen(body) > 0 THEN "errIncompleteFrame" ELSE "nil"

\* NewCancelFrame(sid): NewRawFrame(header, nil)
NewCancelFrame(sid) ==
  [ sid |-> sid, type |-> "CANCEL", flags |-> 0, body |-> NilBody ]

\* NewFrameCancel(sid): NewBaseFrame(header, common.NewByteBuff())
NewFrameCancel(sid) ==
  [ sid |-> sid, type |-> "CANCEL", flags |-> 0, body |-> Buff(<< >>) ]

\* NewCancelFrameSupport(id): a tinyFrame, the header alone
NewCancelFrameSupport(id) ==
  [ sid |-> id, type |-> "CANCEL", flags |-> 0, body |-> NilBody ]

\* CancelFrameSupport.Len
CancelFrameSupportLen == FrameHeaderLen

\* CancelFrameSupport.WriteTo: n stays 0 when the header write fails
CancelFrameSupportWriteTo(f, cap) ==
  IF HeaderWriteTo(f, cap).err # "nil"
    THEN [ wrote |-> HeaderWriteTo(f, cap).wrote, n |-> 0,
           err |-> HeaderWriteTo(f, cap).err ]
    ELSE [ wrote |-> HeaderWriteTo(f, cap).wrote, n |-> 0 + HeaderWriteTo(f, cap).n,
           err |-> "nil" ]

\* NewFrameRequestN(sid, n): the body is the four bytes of n
NewFrameRequestN(sid, n) ==
  [ sid |-> sid, type |-> "REQUEST_N", flags |-> 0, body |-> Buff(PutUint32(n)) ]

\* FrameRequestN.Validate: if p.body.Len() != 4
RequestNValidate(body) ==
  IF BuffLen(body) # 4 THEN "errIncompleteFrame" ELSE "nil"

\* FrameRequestN.N
RequestNN(body) == Uint32(body.bytes)

\* ERROR frames: the error code is the first errCodeLen bytes of the body,
\* the error data starts at errDataOff, a body has at least minErrorFrameLen bytes
errCodeLen == 4
errDataOff == 4
minErrorFrameLen == 4

\* NewFrameError(streamID, code, data): PutUint32(code), then data
NewFrameError(sid, code, data) ==
  [ sid |-> sid, type |-> "ERROR", flags |-> 0, body |-> Buff(PutUint32(code) \o data) ]

\* a Validate that refuses only the empty body
FrameErrorValidateNonEmpty(body) ==
  IF BuffLen(body) < 1 THEN "errIncompleteFrame" ELSE "nil"

\* FrameError.Validate: if p.body.Len() < minErrorFrameLen
FrameErrorValidate(body) ==
  IF BuffLen(body) < minErrorFrameLen THEN "errIncompleteFrame" ELSE "nil"

\* FrameError.ErrorCode: binary.BigEndian.Uint32(p.body.Bytes()), which
\* panics on fewer than four bytes
ErrorCode(body) ==
  IF BuffLen(body) < errCodeLen
    THEN [ panic |-> TRUE, code |-> U32(0, 0) ]
    ELSE [ panic |-> FALSE, code |-> Uint32(body.bytes) ]

\* FrameError.ErrorData: p.body.Bytes()[errDataOff:], which panics when the
\* body is shorter than errDataOff
ErrorData(body) ==
  IF BuffLen(body) < errDataOff
    THEN [ panic |-> TRUE, data |-> << >> ]
    ELSE [ panic |-> FALSE, data |-> SubSeq(body.bytes, errDataOff + 1, Len(body.bytes)) ]

\* what a caller gets from a FrameError with this body: Validate, and when
\* it passes, ErrorCode and ErrorData
ReadFrameError(body) ==
  IF FrameErrorValidate(body) # "nil"
    THEN [ NoOutput EXCEPT !.err = FrameErrorValidate(body) ]
    ELSE [ NoOutput EXCEPT !.n = ErrorCode(body).code,
                           !.data = ErrorData(body).data,
                           !.panic = ErrorCode(body).panic \/ ErrorData(body).panic ]

\* ---------------------------------------------------- the codecs exercised
InitFrame ==
  /\ newTransportClient
  /\ OthersIdle
  /\ fop = "input"
  /\ fin \in Inputs
  /\ fout = NoOutput

\* NewCancelFrame(sid), then Validate
ApplyNewCancelFrame ==
  /\ fop = "input"
  /\ fop' = "NewCancelFrame"
  /\ fout' = [ NoOutput EXCEPT !.frame = NewCancelFrame(fin.sid),
                               !.err = CancelValidate(NewCancelFrame(fin.sid).body) ]
  /\ UNCHANGED fin
  /\ UNCHANGED << tvars, ovars >>

\* NewFrameCancel(sid), then Validate
ApplyNewFrameCancel ==
  /\ fop = "input"
  /\ fop' = "NewFrameCancel"
  /\ fout' = [ NoOutput EXCEPT !.frame = NewFrameCancel(fin.sid),
                               !.err = FrameCancelValidate(NewFrameCancel(fin.sid).body) ]
  /\ UNCHANGED fin
  /\ UNCHANGED << tvars, ovars >>

\* CancelFrame.Validate on a decoded frame
ApplyCancelValidate ==
  /\ fop = "input"
  /\ fop' = "CancelFrame.Validate"
  /\ fout' = [ NoOutput EXCEPT !.err = CancelValidate(fin.body) ]
  /\ UNCHANGED fin
  /\ UNCHANGED << tvars, ovars >>

\* FrameCancel.Validate on a decoded frame
ApplyFrameCancelValidate ==
  /\ fop = "input"
  /\ fop' = "FrameCancel.Validate"
  /\ fout' = [ NoOutput EXCEPT !.err = FrameCancelValidate(fin.body) ]
  /\ UNCHANGED fin
  /\ UNCHANGED << tvars, ovars >>

\* NewCancelFrameSupport(id).WriteTo(w), and Len
ApplyCancelWriteTo ==
  /\ fop = "input"
  /\ fop' = "CancelFrameSupport.WriteTo"
  /\ fout' = [ NoOutput EXCEPT
                 !.frame = NewCancelFrameSupport(fin.sid),
                 !.err = CancelFrameSupportWriteTo(NewCancelFrameSupport(fin.sid), fin.cap).err,
                 !.len = CancelFrameSupportLen,
                 !.n = U32(0, CancelFrameSupportWriteTo(NewCancelFrameSupport(fin.sid), fin.cap).n),
                 !.wrote = CancelFrameSupportWriteTo(NewCancelFrameSupport(fin.sid), fin.cap).wrote ]
  /\ UNCHANGED fin
  /\ UNCHANGED << tvars, ovars >>

\* NewFrameRequestN(sid, n), then Validate and N
ApplyNewFrameRequestN ==
  /\ fop = "input"
  /\ fop' = "NewFrameRequestN"
  /\ fout' = [ NoOutput EXCEPT
                 !.frame = NewFrameRequestN(fin.sid, fin.n),
                 !.err = RequestNValidate(NewFrameRequestN(fin.sid, fin.n).body),
                 !.n = RequestNN(NewFrameRequestN(fin.sid, fin.n).body) ]
  /\ UNCHANGED fin
  /\ UNCHANGED << tvars, ovars >>

\* FrameRequestN.Validate on a decoded frame, and N when it passes
ApplyRequestNValidate ==
  /\ fop = "input"
  /\ fop' = "FrameRequestN.Validate"
  /\ fout' = [ NoOutput EXCEPT
                 !.err = RequestNValidate(fin.body),
                 !.n = IF RequestNValidate(fin.body) = "nil"
                         THEN RequestNN(fin.body) ELSE U32(0, 0) ]
  /\ UNCHANGED fin
  /\ UNCHANGED << tvars, ovars >>

\* NewFrameError(sid, code, data), then Validate, ErrorCode and ErrorData
ApplyNewFrameError ==
  /\ fop = "input"
  /\ fop' = "NewFrameError"
  /\ fout' = [ ReadFrameError(NewFrameError(fin.sid, fin.n, fin.body.bytes).body)
                 EXCEPT !.frame = NewFrameError(fin.sid, fin.n, fin.body.bytes) ]
  /\ UNCHANGED fin
  /\ UNCHANGED << tvars, ovars >>

\* FrameError.Validate on a decoded frame, then ErrorCode and ErrorData
ApplyFrameErrorValidate ==
  /\ fop = "input"
  /\ fop' = "FrameError.Validate"
  /\ fout' = ReadFrameError(fin.body)
  /\ UNCHANGED fin
  /\ UNCHANGED << tvars, ovars >>

NextFrame ==
  \/ ApplyNewCancelFrame
  \/ ApplyNewFrameCancel
  \/ ApplyCancelValidate
  \/ ApplyFrameCancelValidate
  \/ ApplyCancelWriteTo
  \/ ApplyNewFrameRequestN
  \/ ApplyRequestNValidate
  \/ ApplyNewFrameError
  \/ ApplyFrameErrorValidate

SpecFrame == InitFrame /\ [][NextFrame]_vars

\* ------------------------------------------------------------ Transport.Send
\* the receiver of Send: a nil *Transport, a Transport whose conn is nil, or
\* a Transport with a connection
Receivers == { "nilTransport", "nilConn", "transport" }

\* the calls of Send: receiver, frame and flush
SendCalls == [ p : Receivers, frame : Frames, flush : BOOLEAN ]

\* the deferred function of Send calls Done on every return
DeferredDoneAlways(e) == 1

\* defer func() { if err == nil { frame.Done() } }(): calls of frame.Done
DeferredDone(e) == IF e = "nil" THEN 1 ELSE 0

\* Send is called: snd holds the call, the named result err, the position
\* in Send, and the calls of conn.Write, conn.Flush and frame.Done so far
InitSend ==
  /\ newTransportClient
  /\ FrameIdle
  /\ \E c \in SendCalls :
       snd = [ pc |-> "call", p |-> c.p, frame |-> c.frame, flush |-> c.flush,
               err |-> "nil", writes |-> << >>, flushes |-> 0, dones |-> 0 ]
  /\ cli = [ pc |-> "idle" ]
  /\ mono = [ pc |-> "idle" ]

\* if p == nil || p.conn == nil { err = errTransportClosed; return }
SendCheckClosed ==
  /\ snd.pc = "call"
  /\ snd' = IF snd.p # "transport"
              THEN [ snd EXCEPT !.err = "errTransportClosed", !.pc = "defer" ]
              ELSE [ snd EXCEPT !.pc = "write" ]
  /\ UNCHANGED << tvars, fvars, cli, mono >>

\* err = p.conn.Write(frame); if err != nil { return }; if !flush { return }
SendWrite ==
  /\ snd.pc = "write"
  /\ \E e \in { "nil", "writeErr" } :
       snd' = [ snd EXCEPT !.writes = Append(@, snd.frame),
                           !.err = e,
                           !.pc = IF e = "nil" /\ snd.flush THEN "flush" ELSE "defer" ]
  /\ UNCHANGED << tvars, fvars, cli, mono >>

\* err = p.conn.Flush(); return
SendFlush ==
  /\ snd.pc = "flush"
  /\ \E e \in { "nil", "flushErr" } :
       snd' = [ snd EXCEPT !.flushes = @ + 1, !.err = e, !.pc = "defer" ]
  /\ UNCHANGED << tvars, fvars, cli, mono >>

\* the deferred function runs and Send returns err
SendReturn ==
  /\ snd.pc = "defer"
  /\ snd' = [ snd EXCEPT !.dones = @ + DeferredDone(snd.err), !.pc = "returned" ]
  /\ UNCHANGED << tvars, fvars, cli, mono >>

NextSend ==
  \/ SendCheckClosed
  \/ SendWrite
  \/ SendFlush
  \/ SendReturn

SpecSend == InitSend /\ [][NextSend]_vars

\* ------------------------------------------------ defaultClientSocket.Setup
\* why Start's loop ended: the values of lerr after a break, or "ctx"
StartCauses == { "EOF", "readerr", "deadline", "handler", "disaster", "missing", "ctx" }

\* what Start returns for a cause (StartReturn: the named result is nil after
\* every break, ctx.Err() after the ctx.Done case)
StartResult(cause) == IF cause = "ctx" THEN "ctx" ELSE AfterLoop("nil")

\* the frames producers put on the socket's outbound queue
OutTypes == { "KEEPALIVE", "REQUEST_FNF" }

\* the reader goroutine closing the socket only after a failed Start
AfterStartCloseOnError(e) ==
  [ warned |-> e # "nil", closes |-> IF e # "nil" THEN 1 ELSE 0 ]

\* the reader goroutine after Start:
\* if err != nil { logger.Warnf(...) }; _ = p.Close()
AfterStart(e) == [ warned |-> e # "nil", closes |-> 1 ]

\* Setup is called on a client socket made by NewClient
InitClient ==
  /\ newTransportClient
  /\ FrameIdle
  /\ snd = [ pc |-> "idle" ]
  /\ mono = [ pc |-> "idle" ]
  /\ cli = [ pc |-> "call",          \* Setup: "call", "goReader", "goWriter", "send", "returned"
             err |-> "nil",          \* the result of Setup
             attached |-> FALSE,     \* p.socket.SetTransport(tp) was called
             reader |-> "none",      \* the reader goroutine: "none", "start", "returned", "exited"
             cause |-> "none",       \* why Start's loop ended
             startErr |-> "nil",     \* the result of Start
             warned |-> FALSE,       \* logger.Warnf was called
             closes |-> 0,           \* calls of p.Close
             tpClosed |-> FALSE,     \* the transport is closed
             writer |-> "none",      \* the writer goroutine: "none", "loop", "exited"
             outs |-> << >>,         \* the outbound frame queue
             queued |-> 0,           \* frames put on the queue so far
             written |-> << >>,      \* the frames written to the connection, in order
             ctxDone |-> FALSE ]     \* ctx is cancelled

\* tp, err := p.uri.MakeClientTransport(p.tls); if err != nil { return };
\* SetCounter; SetLifetime; p.socket.SetTransport(tp)
SetupMakeTransport ==
  /\ cli.pc = "call"
  /\ \/ cli' = [ cli EXCEPT !.err = "dialErr", !.pc = "returned" ]
     \/ cli' = [ cli EXCEPT !.attached = TRUE, !.pc = "goReader" ]
  /\ UNCHANGED << tvars, fvars, snd, mono >>

\* go func(ctx, tp) { tp.Start(ctx) ... }(ctx, tp)
SetupGoReader ==
  /\ cli.pc = "goReader"
  /\ cli' = [ cli EXCEPT !.reader = "start", !.pc = "goWriter" ]
  /\ UNCHANGED << tvars, fvars, snd, mono >>

\* go func(ctx) { _ = p.socket.loopWrite(ctx) }(ctx)
SetupGoWriter ==
  /\ cli.pc = "goWriter"
  /\ cli' = [ cli EXCEPT !.writer = "loop", !.pc = "send" ]
  /\ UNCHANGED << tvars, fvars, snd, mono >>

\* err = p.socket.tp.Send(setupFrame, true); return.
\* Send writes the frame unless conn.Write fails; a closed connection fails.
SetupSend ==
  /\ cli.pc = "send"
  /\ \E e \in { "nil", "writeErr", "flushErr" } :
       /\ cli.tpClosed => e = "writeErr"
       /\ cli' = [ cli EXCEPT
                     !.written = IF e = "writeErr" THEN @ ELSE Append(@, "SETUP"),
                     !.err = e,
                     !.pc = "returned" ]
  /\ UNCHANGED << tvars, fvars, snd, mono >>

\* tp.Start(ctx) returns in the reader goroutine; its deferred Close has run
ReaderStartReturns ==
  /\ cli.reader = "start"
  /\ \E cause \in StartCauses :
       /\ cause = "ctx" => cli.ctxDone
       /\ cli' = [ cli EXCEPT !.cause = cause,
                              !.startErr = StartResult(cause),
                              !.tpClosed = TRUE,
                              !.reader = "returned" ]
  /\ UNCHANGED << tvars, fvars, snd, mono >>

\* the reader goroutine after Start returned
ReaderClose ==
  /\ cli.reader = "returned"
  /\ cli' = [ cli EXCEPT !.warned = AfterStart(cli.startErr).warned,
                         !.closes = @ + AfterStart(cli.startErr).closes,
                         !.reader = "exited" ]
  /\ UNCHANGED << tvars, fvars, snd, mono >>

\* a producer (a request method of the socket) puts a frame on the outbound queue
Enqueue ==
  /\ cli.queued < MaxQueued
  /\ \E t \in OutTypes :
       cli' = [ cli EXCEPT !.outs = Append(@, t), !.queued = @ + 1 ]
  /\ UNCHANGED << tvars, fvars, snd, mono >>

\* loopWrite takes the next frame of the queue and sends it on the transport
WriterSend ==
  /\ cli.writer = "loop"
  /\ cli.attached
  /\ cli.outs # << >>
  /\ \E e \in { "nil", "writeErr", "flushErr" } :
       /\ cli.tpClosed => e = "writeErr"
       /\ cli' = [ cli EXCEPT
                     !.written = IF e = "writeErr" THEN @ ELSE Append(@, Head(cli.outs)),
                     !.outs = Tail(@) ]
  /\ UNCHANGED << tvars, fvars, snd, mono >>

\* loopWrite returns once the context is done or the socket is closed
WriterExit ==
  /\ cli.writer = "loop"
  /\ cli.ctxDone \/ cli.closes > 0
  /\ cli' = [ cli EXCEPT !.writer = "exited" ]
  /\ UNCHANGED << tvars, fvars, snd, mono >>

\* the context given to Setup is cancelled
ClientCancel ==
  /\ ~cli.ctxDone
  /\ cli' = [ cli EXCEPT !.ctxDone = TRUE ]
  /\ UNCHANGED << tvars, fvars, snd, mono >>

NextClient ==
  \/ SetupMakeTransport
  \/ SetupGoReader
  \/ SetupGoWriter
  \/ SetupSend
  \/ ReaderStartReturns
  \/ ReaderClose
  \/ Enqueue
  \/ WriterSend
  \/ WriterExit
  \/ ClientCancel

SpecClient == InitClient /\ [][NextClient]_vars

\* a goroutine that is runnable is scheduled: the reader goroutine, once
\* Start has returned, goes on to its next statement
SpecClientFair == SpecClient /\ WF_vars(ReaderClose)

\* --------------------------------------------------------------- Mono proxy
\* payloads (data and metadata)
Payloads == { [ data |-> "foo", metadata |-> "bar" ],
              [ data |-> "hello", metadata |-> "world" ] }

\* no payload: the nil payload.Payload
NilPayload == [ data |-> "nil", metadata |-> "nil" ]

\* the errors a source can end with
Errors == { "originErr", "foobar" }

\* the sources of a Mono: kind, the payload it holds, the error it holds.
\* Create and Processor get theirs from the sink, after subscription.
Sources ==
  { [ kind |-> "Just", v |-> v, e |-> "nil" ] : v \in Payloads }
    \cup { [ kind |-> "Empty", v |-> NilPayload, e |-> "nil" ] }
    \cup { [ kind |-> "JustOrEmpty", v |-> v, e |-> "nil" ] : v \in Payloads \cup { NilPayload } }
    \cup { [ kind |-> "Error", v |-> NilPayload, e |-> e ] : e \in Errors }
    \cup { [ kind |-> k, v |-> NilPayload, e |-> "nil" ] : k \in { "Create", "Processor" } }

\* the sources that signal by themselves once subscribed
SyncKinds == { "Just", "Empty", "JustOrEmpty", "Error" }

\* the signal a synchronous source ends with
SourceSignal(src) ==
  IF src.kind = "Error" THEN "error"
  ELSE IF src.v = NilPayload THEN "empty" ELSE "success"

\* the signals that end a subscription; "cancelAsError" is a cancellation
\* the underlying Mono reports through its error hooks
Signals == { "success", "empty", "error", "cancel", "cancelAsError" }

\* how the subscription ended, for a signal
TermOf(sig) == IF sig = "cancelAsError" THEN "cancel" ELSE sig

\* a channel made by make(chan T, ChanCap)
MakeChan == [ buf |-> << >>, sent |-> 0, closes |-> 0 ]

\* make(chan error, 1), make(chan payload.Payload, 1)
ChanCap == 1

\* a DoOnSuccess callback that runs on every signal
DoOnSuccessFiresAlways(sig) == TRUE

\* proxy.DoOnSuccess registers its callback with DoOnNext: it runs when a
\* payload is emitted
DoOnSuccessFires(sig) == sig = "success"

\* proxy.DoOnError registers its callback with DoOnError
DoOnErrorFires(sig) == sig \in { "error", "cancelAsError" }

\* what Block of the underlying Mono returns once the subscription ended
InnerBlock(term, v, e) ==
  IF term = "success" THEN [ v |-> v, err |-> "nil" ]
  ELSE IF term = "empty" THEN [ v |-> NilPayload, err |-> "nil" ]
  ELSE IF term = "error" THEN [ v |-> NilPayload, err |-> e ]
  ELSE [ v |-> NilPayload, err |-> "errCancelled" ]

\* proxy.Block without the payload
BlockDropsPayload(r) == [ pa |-> NilPayload, err |-> r.err ]

\* proxy.Block: v, err := p.Mono.Block(ctx); if err != nil { return };
\* if v != nil { pa = v.(payload.Payload) }; return
Block(r) ==
  IF r.err # "nil" THEN [ pa |-> NilPayload, err |-> r.err ]
  ELSE IF r.v # NilPayload THEN [ pa |-> r.v, err |-> "nil" ]
  ELSE [ pa |-> NilPayload, err |-> "nil" ]

\* ch <- x by a callback: buffered when there is room
ChanSend(ch, x) ==
  IF ch.closes = 0 /\ Len(ch.buf) < ChanCap
    THEN [ ch EXCEPT !.buf = Append(@, x), !.sent = @ + 1 ]
    ELSE ch

\* ch <- x on an unbuffered channel nobody receives from
SendBlocksUnbuffered(ch) == ch.closes = 0

\* ch <- x would block: the buffer has no room
SendBlocks(ch) == ch.closes = 0 /\ Len(ch.buf) >= ChanCap

\* ch <- x would panic: the channel is closed
SendPanics(ch) == ch.closes > 0

\* the callbacks of ToChan on a signal: DoOnSuccess sends the payload,
\* DoOnError sends the error, DoFinally closes both channels.  A callback
\* that blocks never returns, so nothing after it runs.
ToChanOnSignal(m, sig, v, e) ==
  LET sendP == DoOnSuccessFires(sig)
      sendE == DoOnErrorFires(sig)
      stuck == (sendP /\ SendBlocks(m.payloadChannel)) \/ (sendE /\ SendBlocks(m.errorChannel))
      pch == IF sendP THEN ChanSend(m.payloadChannel, v) ELSE m.payloadChannel
      ech == IF sendE THEN ChanSend(m.errorChannel, e) ELSE m.errorChannel
  IN [ m EXCEPT
         !.blocked = @ \/ stuck,
         !.panicked = @ \/ (sendP /\ SendPanics(m.payloadChannel))
                        \/ (sendE /\ SendPanics(m.errorChannel))
                        \/ (~stuck /\ (pch.closes > 0 \/ ech.closes > 0)),
         !.payloadChannel = IF stuck THEN pch ELSE [ pch EXCEPT !.closes = @ + 1 ],
         !.errorChannel = IF stuck THEN ech ELSE [ ech EXCEPT !.closes = @ + 1 ],
         !.finals = IF stuck THEN @ ELSE @ + 1 ]

\* a signal reaches the subscriber: the registered callbacks run, then the
\* callbacks of ToChan if it is the consumer
Deliver(m, sig, v, e) ==
  LET m1 == [ m EXCEPT
                !.pc = "terminated",
                !.term = TermOf(sig),
                !.src = [ @ EXCEPT !.v = v, !.e = e ],
                !.succArgs = [ i \in 1..m.nSucc |->
                                 IF DoOnSuccessFires(sig) THEN Append(@[i], v) ELSE @[i] ],
                !.errArgs = [ i \in 1..m.nErr |->
                                IF DoOnErrorFires(sig)
                                  THEN Append(@[i], IF sig = "error" THEN e ELSE "errCancelled")
                                  ELSE @[i] ] ]
  IN IF m.consumer = "ToChan"
       THEN ToChanOnSignal(m1, sig, v, IF sig = "error" THEN e ELSE "errCancelled")
       ELSE m1

\* a Mono is assembled: a source, maybe SubscribeOn, DoOnSuccess and
\* DoOnError callbacks, and the consumer that will subscribe
InitMono ==
  /\ newTransportClient
  /\ FrameIdle
  /\ snd = [ pc |-> "idle" ]
  /\ cli = [ pc |-> "idle" ]
  /\ \E src \in Sources, on \in BOOLEAN, c \in { "Block", "ToChan" },
        ns \in 0..MaxHooks, ne \in 0..MaxHooks :
       mono = [ pc |-> "assembled",       \* "assembled", "subscribed", "terminated"
                src |-> src,
                subscribeOn |-> on,
                consumer |-> c,
                nSucc |-> ns,             \* DoOnSuccess callbacks registered
                nErr |-> ne,              \* DoOnError callbacks registered
                succArgs |-> [ i \in 1..ns |-> << >> ],  \* what each was called with
                errArgs |-> [ i \in 1..ne |-> << >> ],
                term |-> "none",          \* how the subscription ended
                block |-> [ state |-> "none", pa |-> NilPayload, err |-> "nil" ],
                payloadChannel |-> MakeChan,
                errorChannel |-> MakeChan,
                finals |-> 0,             \* runs of the DoFinally callback of ToChan
                blocked |-> FALSE,        \* a callback is stuck in a send
                panicked |-> FALSE,       \* a send or close hit a closed channel
                ctxDone |-> FALSE ]

\* Block(ctx) or ToChan(ctx) subscribes; a synchronous source that is not
\* moved to another scheduler signals within the call
MonoSubscribe ==
  /\ mono.pc = "assembled"
  /\ LET m == [ mono EXCEPT !.pc = "subscribed",
                            !.block = IF mono.consumer = "Block"
                                        THEN [ @ EXCEPT !.state = "waiting" ] ELSE @ ]
     IN mono' = IF mono.src.kind \in SyncKinds /\ ~mono.subscribeOn
                  THEN Deliver(m, SourceSignal(m.src), m.src.v, m.src.e)
                  ELSE m
  /\ UNCHANGED << tvars, fvars, snd, cli >>

\* a synchronous source signals on the scheduler SubscribeOn gave it
MonoEmit ==
  /\ mono.pc = "subscribed"
  /\ mono.src.kind \in SyncKinds
  /\ mono' = Deliver(mono, SourceSignal(mono.src), mono.src.v, mono.src.e)
  /\ UNCHANGED << tvars, fvars, snd, cli >>

\* sink.Success(v), proxy.Success(v): a payload, or nil for an empty completion
SinkSuccess ==
  /\ mono.pc = "subscribed"
  /\ mono.src.kind \notin SyncKinds
  /\ \E v \in Payloads \cup { NilPayload } :
       mono' = Deliver(mono, IF v = NilPayload THEN "empty" ELSE "success", v, "nil")
  /\ UNCHANGED << tvars, fvars, snd, cli >>

\* sink.Error(e), proxy.Error(e)
SinkError ==
  /\ mono.pc = "subscribed"
  /\ mono.src.kind \notin SyncKinds
  /\ \E e \in Errors : mono' = Deliver(mono, "error", NilPayload, e)
  /\ UNCHANGED << tvars, fvars, snd, cli >>

\* ctx is cancelled before the source signalled
MonoCancel ==
  /\ mono.pc = "subscribed"
  /\ \E sig \in { "cancel", "cancelAsError" } :
       mono' = Deliver([ mono EXCEPT !.ctxDone = TRUE ], sig, NilPayload, "nil")
  /\ UNCHANGED << tvars, fvars, snd, cli >>

\* proxy.Block returns
BlockReturn ==
  /\ mono.block.state = "waiting"
  /\ mono.pc = "terminated"
  /\ LET r == Block(InnerBlock(mono.term, mono.src.v, mono.src.e))
     IN mono' = [ mono EXCEPT !.block = [ state |-> "returned", pa |-> r.pa, err |-> r.err ] ]
  /\ UNCHANGED << tvars, fvars, snd, cli >>

\* the caller of ToChan receives from one of the two channels
ChanReceive ==
  /\ mono.consumer = "ToChan"
  /\ \/ /\ mono.payloadChannel.buf # << >>
        /\ mono' = [ mono EXCEPT !.payloadChannel.buf = Tail(@) ]
     \/ /\ mono.errorChannel.buf # << >>
        /\ mono' = [ mono EXCEPT !.errorChannel.buf = Tail(@) ]
  /\ UNCHANGED << tvars, fvars, snd, cli >>

NextMono ==
  \/ MonoSubscribe
  \/ MonoEmit
  \/ SinkSuccess
  \/ SinkError
  \/ MonoCancel
  \/ BlockReturn
  \/ ChanReceive

SpecMono == InitMono /\ [][NextMono]_vars

\* ------------------------------------------------------------------ claims
\* the frame Start read last has been through DispatchFrame, and lerr is what
\* DispatchFrame returned for it
Dispatched ==
  /\ nRead > 0
  /\ pc \in { "loop", "exit", "done" }
  /\ lerr \notin { "EOF", "readerr" }

\* the reader went back to the select of the loop after the last frame
LoopWentOn == pc = "loop" \/ (pc \in { "exit", "done" } /\ err = "ctx")

\* how many handler invocations frame number k got
Invocations(k) == Cardinality({ i \in 1..Len(calls) : calls[i] = k })

\* C1: whatever the number and the interleaving of the calls of
\* Transport.Close (Start's deferred one, ReadFirst's, other goroutines'),
\* conn.Close is invoked exactly once if Close was called, and never twice.
C1_ConnClosedOnce ==
  /\ connClosed <= 1
  /\ (closeCalled => connClosed = 1)
  /\ (~closeCalled => connClosed = 0)

\* ReadFirst failed and closed, Start ran and returned through its deferred
\* Close, and the connection was closed once
C1_Witness ==
  /\ first = "err"
  /\ pc = "done"
  /\ nRead = 0
  /\ closeCalled
  /\ connClosed = 1

\* C2: an ERROR frame with stream id 0 gets the disaster handler once (when
\* one is installed) and no other handler, DispatchFrame returns an error,
\* Start leaves the loop without reading another frame, and the connection
\* is closed when Start has returned.
C2_DisasterOnceThenClose ==
  (nRead > 0 /\ pc # "dispatch" /\ frame.type = "ERROR" /\ frame.sid = 0)
    => /\ lerr = "disaster"
       /\ pc \in { "exit", "done" }
       /\ ("hError0" \in handlers => handled = "hError0" /\ Invocations(nRead) = 1)
       /\ ("hError0" \notin handlers => handled = "nil" /\ Invocations(nRead) = 0)
       /\ (pc = "done" => once /\ connClosed = 1)

\* a connection-level ERROR arrived as the second frame, the disaster handler
\* ran, Start returned
C2_Witness ==
  /\ pc = "done"
  /\ nRead = 2
  /\ frame.type = "ERROR"
  /\ frame.sid = 0
  /\ handled = "hError0"
  /\ "hError" \in handlers
  /\ connClosed = 1

\* C3: an ERROR frame with a nonzero stream id goes to the stream-level error
\* handler, never to the disaster handler; when that handler returns no error
\* the reader is back in the loop and the connection is not closed unless
\* someone called Transport.Close.
C3_StreamErrorRoutedToHError ==
  (Dispatched /\ frame.type = "ERROR" /\ frame.sid # 0)
    => /\ handled \in { "hError", "nil" }
       /\ (handled = "hError" => "hError" \in handlers /\ Invocations(nRead) = 1)
       /\ (handled = "hError" /\ lerr = "nil"
             => /\ LoopWentOn
                /\ (pc = "loop" /\ ~closeCalled => ~once /\ connClosed = 0))

\* a stream-level ERROR was handled without error with both error handlers
\* installed: the reader is in the loop and the connection is open
C3_Witness ==
  /\ pc = "loop"
  /\ frame.type = "ERROR"
  /\ frame.sid # 0
  /\ handled = "hError"
  /\ "hError0" \in handlers
  /\ lerr = "nil"
  /\ connClosed = 0

\* C4: for every frame handed to DispatchFrame, whatever its type and stream
\* id, the read deadline is now + maxLifetime afterwards (a failure of
\* conn.SetDeadline itself set aside).
C4_DeadlineResetOnEveryFrame ==
  (Dispatched /\ lerr # "deadline") => deadline = now + maxLifetime

\* C5: a METADATA_PUSH frame with a nonzero stream id is dropped:
\* DispatchFrame returns no error, no handler is invoked for it, and the
\* reader goes back to the loop.
C5_MetadataPushOnStreamDropped ==
  (Dispatched /\ frame.type = "METADATA_PUSH" /\ frame.sid # 0)
    => /\ lerr = "nil"
       /\ handled = "nil"
       /\ Invocations(nRead) = 0
       /\ LoopWentOn

\* a METADATA_PUSH on stream 1 was dropped although the metadata-push handler
\* is installed; the reader is in the loop and the connection is open
C5_Witness ==
  /\ pc = "loop"
  /\ frame.type = "METADATA_PUSH"
  /\ frame.sid # 0
  /\ "hMetadataPush" \in handlers
  /\ handled = "nil"
  /\ connClosed = 0

\* C6: a frame whose type has no row in the dispatch table is dropped when its
\* IGNORE flag is set (no error, the loop goes on) and ends the connection
\* when it is not (a failure of conn.SetDeadline set aside).
C6_UnknownTypeIgnoredWhenFlagged ==
  (Dispatched /\ frame.type \in UnknownTypes /\ lerr # "deadline")
    => IF frame.ignore
         THEN lerr = "nil" /\ LoopWentOn
         ELSE lerr # "nil" /\ pc \in { "exit", "done" }

\* C7: a SETUP frame dispatched after another SETUP frame is rejected: it does
\* not reach the setup handler, does not replace maxLifetime, and DispatchFrame
\* returns an error so that Start leaves the loop and closes (a failure of
\* conn.SetDeadline set aside).
C7_SecondSetupRejected ==
  [][ (pc = "dispatch" /\ pc' # "dispatch" /\ frame.type = "SETUP" /\ nSetup >= 1
         /\ lerr' # "deadline")
        => /\ maxLifetime' = maxLifetime
           /\ handled' # "hSetup"
           /\ lerr' # "nil"
           /\ pc' = "exit" ]_vars

\* C8: handlers are invoked in the order the frames are read and one at a
\* time (frame k's handler has returned when frame k+1 is read); after the
\* first read error or DispatchFrame error the reader is out of the loop, so
\* no handler runs any more, and the connection is closed when Start returns.
C8_HandlersInReadOrder ==
  /\ \A i \in 1..Len(calls) : calls[i] \in 1..nRead
  /\ \A i \in 1..(Len(calls) - 1) : calls[i] < calls[i + 1]
  /\ (pc = "dispatch" => \A i \in 1..Len(calls) : calls[i] < nRead)
  /\ (pc # "dispatch" /\ handled # "nil"
        => Len(calls) > 0 /\ calls[Len(calls)] = nRead)
  /\ (lerr # "nil" => pc \in { "exit", "done" })
  /\ (pc = "done" => once /\ connClosed = 1)

\* two frames were read and handled in turn, the second handler failed, and
\* Start returned with the connection closed
C8_Witness ==
  /\ calls = << 1, 2 >>
  /\ lerr = "handler"
  /\ pc = "done"
  /\ connClosed = 1

\* bs is the first Len(bs) bytes of cs
IsPrefix(bs, cs) == Len(bs) <= Len(cs) /\ bs = SubSeq(cs, 1, Len(bs))

\* C9: Validate on a CANCEL frame returns errIncompleteFrame exactly when the
\* body is non-nil and non-empty (else nil); the frames NewCancelFrame and
\* NewFrameCancel build pass Validate; CancelFrameSupport.WriteTo writes
\* nothing but header bytes, and when it succeeds it wrote the whole header
\* and reports Len() = the header length.
C9_CancelValidateAndLen ==
  /\ (fop \in { "CancelFrame.Validate", "FrameCancel.Validate" }
        => /\ fout.err \in { "nil", "errIncompleteFrame" }
           /\ (fout.err = "errIncompleteFrame"
                 <=> (~fin.body.isNil /\ Len(fin.body.bytes) > 0)))
  /\ (fop \in { "NewCancelFrame", "NewFrameCancel" }
        => /\ fout.err = "nil"
           /\ fout.frame.type = "CANCEL"
           /\ fout.frame.sid = fin.sid)
  /\ (fop = "CancelFrameSupport.WriteTo"
        => /\ fout.len = FrameHeaderLen
           /\ IsPrefix(fout.wrote, HeaderBytes(fout.frame))
           /\ Len(HeaderBytes(fout.frame)) = fout.len
           /\ (fout.err = "nil"
                 => fout.wrote = HeaderBytes(fout.frame) /\ fout.n = U32(0, fout.len)))

\* a decoded CANCEL frame with a four-byte body was refused
C9_Witness ==
  /\ fop = "CancelFrame.Validate"
  /\ Len(fin.body.bytes) = 4
  /\ fout.err = "errIncompleteFrame"

\* n is outside 1 .. 2^31-1
OutOfRange(n) == (n.hi = 0 /\ n.lo = 0) \/ n.hi >= 32768

\* C10: a REQUEST_N frame whose n is 0 or has its top bit set is reported as
\* an error, by Validate on the frame NewFrameRequestN built and by Validate
\* on a decoded frame.
C10_RequestNRangeChecked ==
  /\ (fop = "NewFrameRequestN" /\ OutOfRange(fin.n) => fout.err # "nil")
  /\ (fop = "FrameRequestN.Validate" /\ BuffLen(fin.body) = 4
        /\ OutOfRange(Uint32(fin.body.bytes)) => fout.err # "nil")

\* C11: the frame NewFrameRequestN(sid, n) builds has a body of exactly four
\* bytes, passes the length check of Validate, and N() reads back n; Validate
\* answers errIncompleteFrame for every body whose length is not 4, and only
\* for those.
C11_RequestNRoundTrip ==
  /\ (fop = "NewFrameRequestN" =>
        /\ BuffLen(fout.frame.body) = 4
        /\ RequestNValidate(fout.frame.body) = "nil"
        /\ fout.err = "nil"
        /\ fout.n = fin.n
        /\ fout.frame.sid = fin.sid)
  /\ (fop = "FrameRequestN.Validate" =>
        (fout.err = "errIncompleteFrame" <=> BuffLen(fin.body) # 4))

C11_Witness ==
  /\ fop = "NewFrameRequestN"
  /\ fin.n = U32(32767, 1)
  /\ fout.n = U32(32767, 1)
  /\ fout.frame.body.bytes = << 127, 255, 0, 1 >>

\* C14: DispatchFrame on a KEEPALIVE frame sets lastRcvPos to the frame's
\* last received position, on a RESUME_OK frame to its last received client
\* position, and on a frame of any other type leaves lastRcvPos as it was.
C14_LastRcvPosFromKeepaliveAndResumeOK ==
  [][ pc = "dispatch" /\ pc' # "dispatch" =>
        lastRcvPos' = IF frame.type \in { "KEEPALIVE", "RESUME_OK" }
                        THEN frame.val ELSE lastRcvPos ]_vars

C14_Witness ==
  /\ Dispatched
  /\ frame.type = "RESUME_OK"
  /\ frame.val = 1
  /\ lastRcvPos = 1

\* C16: Start reports why its loop ended: nil when conn.Read returned io.EOF,
\* a non-nil error wrapping the cause when the loop ended on another read
\* error or on an error of DispatchFrame, ctx.Err() when the context was
\* cancelled.
C16_StartReportsCause ==
  pc = "done" =>
    /\ (lerr = "EOF" => err = "nil")
    /\ (lerr \in { "readerr", "disaster", "deadline", "missing", "handler" } =>
          err = "wrapped")
    /\ (lerr = "nil" => err = "ctx")

\* C17: maxLifetime of a Transport made by newTransportClient is at least 1
\* in every reachable state, whatever SetLifetime calls were made and
\* whatever frames were dispatched, SETUP frames of any MaxLifetime included.
C17_MaxLifetimeAtLeastOne == maxLifetime >= 1

\* C18: Send calls frame.Done() exactly once if and only if it returns nil.
\* On a nil transport or connection it returns errTransportClosed and writes
\* nothing; when conn.Write fails it returns without flushing; when Write
\* succeeds and Flush fails it returns the flush error; in these three cases
\* Done is not called.  With flush = false Flush is never called.
C18_SendDoneIffNil ==
  /\ snd.pc # "returned" => snd.dones = 0
  /\ snd.pc = "returned" =>
       /\ snd.dones = (IF snd.err = "nil" THEN 1 ELSE 0)
       /\ (snd.p # "transport" =>
             snd.err = "errTransportClosed" /\ snd.writes = << >> /\ snd.flushes = 0)
       /\ (snd.p = "transport" => snd.writes = << snd.frame >>)
       /\ (snd.err = "writeErr" => snd.flushes = 0)
       /\ (snd.err = "flushErr" => snd.flushes = 1)
       /\ (snd.err = "nil" => snd.flushes = (IF snd.flush THEN 1 ELSE 0))
  /\ (~snd.flush => snd.flushes = 0)

C18_Witness ==
  /\ snd.pc = "returned"
  /\ snd.flush
  /\ snd.err = "flushErr"
  /\ snd.writes = << snd.frame >>
  /\ snd.dones = 0

\* C15: when MakeClientTransport fails, Setup returns that error with no
\* transport attached and neither goroutine started; otherwise, whenever
\* Start returns in the reader goroutine, for whatever cause, the client
\* socket's Close is eventually called.
C15_CloseAfterStartReturns ==
  /\ [](cli.err = "dialErr" =>
          /\ cli.pc = "returned"
          /\ ~cli.attached
          /\ cli.reader = "none"
          /\ cli.writer = "none"
          /\ cli.written = << >>)
  /\ (cli.reader = "returned" ~> cli.closes >= 1)

C15_Witness ==
  /\ cli.pc = "returned"
  /\ cli.err = "nil"
  /\ cli.reader = "exited"
  /\ cli.cause = "EOF"
  /\ cli.startErr = "nil"
  /\ cli.closes = 1

\* C19: the SETUP frame is the first frame written to the connection of the
\* transport Setup made, whatever the writer goroutine does meanwhile.
C19_SetupFrameFirst ==
  cli.written # << >> => cli.written[1] = "SETUP"

\* C12: when a Mono ends with error e (Error(e), or a sink calling Error(e)),
\* every registered DoOnError callback has been called exactly once, with e,
\* no DoOnSuccess callback has been called, and Block returns the nil
\* payload and e.
C12_ErrorReachesBlockAndHooks ==
  mono.pc = "terminated" /\ mono.term = "error" =>
    /\ mono.src.e \in Errors
    /\ \A i \in 1..mono.nErr : mono.errArgs[i] = << mono.src.e >>
    /\ \A i \in 1..mono.nSucc : mono.succArgs[i] = << >>
    /\ (mono.block.state = "returned" =>
          mono.block.pa = NilPayload /\ mono.block.err = mono.src.e)

C12_Witness ==
  /\ mono.src.kind = "Create"
  /\ mono.term = "error"
  /\ mono.nErr = 2
  /\ mono.nSucc = 1
  /\ mono.errArgs = << << "foobar" >>, << "foobar" >> >>
  /\ mono.block.state = "returned"
  /\ mono.block.err = "foobar"

\* C13: Block returns only after the Mono's terminal signal; when a payload
\* was emitted (by Just, by a sink's or processor's Success, on another
\* scheduler or not) it returns that payload, data and metadata, and a nil
\* error; when the Mono completed empty it returns the nil payload and a nil
\* error.
C13_BlockReturnsEmittedPayload ==
  mono.block.state = "returned" =>
    /\ mono.pc = "terminated"
    /\ (mono.term = "success" =>
          /\ mono.src.v \in Payloads
          /\ mono.block.pa = mono.src.v
          /\ mono.block.err = "nil")
    /\ (mono.term = "empty" =>
          mono.block.pa = NilPayload /\ mono.block.err = "nil")

C13_Witness ==
  /\ mono.src.kind = "Create"
  /\ mono.subscribeOn
  /\ mono.term = "success"
  /\ mono.block.state = "returned"
  /\ mono.block.pa = [ data |-> "foo", metadata |-> "bar" ]
  /\ mono.block.err = "nil"

\* C20: with ToChan, however the Mono ends, at most one value is sent over
\* the payload channel and the error channel together, no send blocks or
\* comes after a close, neither channel is closed twice, and once the Mono
\* has ended both channels are closed.
C20_ToChanOneValueThenClosed ==
  mono.consumer = "ToChan" =>
    /\ mono.payloadChannel.sent + mono.errorChannel.sent <= 1
    /\ ~mono.blocked
    /\ ~mono.panicked
    /\ mono.payloadChannel.closes <= 1
    /\ mono.errorChannel.closes <= 1
    /\ (mono.pc = "terminated" =>
          /\ mono.payloadChannel.closes = 1
          /\ mono.errorChannel.closes = 1
          /\ (mono.term = "success" => mono.payloadChannel.sent = 1)
          /\ (mono.term = "error" => mono.errorChannel.sent = 1)
          /\ (mono.term = "empty" =>
                mono.payloadChannel.sent + mono.errorChannel.sent = 0))
    /\ (mono.pc # "terminated" =>
          /\ mono.payloadChannel.closes = 0
          /\ mono.errorChannel.closes = 0
          /\ mono.payloadChannel.sent + mono.errorChannel.sent = 0)

C20_Witness ==
  /\ mono.consumer = "ToChan"
  /\ mono.term = "cancel"
  /\ mono.errorChannel.sent = 1
  /\ mono.payloadChannel.sent = 0
  /\ mono.payloadChannel.closes = 1
  /\ mono.errorChannel.closes = 1

\* C21: on an ERROR frame body that passes Validate, ErrorCode and ErrorData
\* read within the body (neither panics; the code is the first four bytes,
\* the data the rest); Validate answers errIncompleteFrame for every body
\* shorter than 4 bytes, and only for those; the frame NewFrameError(sid,
\* code, data) builds passes Validate, and its ErrorCode is code and its
\* ErrorData is data.
C21_FrameErrorReadsWithinBody ==
  /\ (fop = "FrameError.Validate" =>
        /\ (fout.err = "errIncompleteFrame" <=> BuffLen(fin.body) < 4)
        /\ (fout.err = "nil" =>
              /\ ~fout.panic
              /\ PutUint32(fout.n) \o fout.data = fin.body.bytes))
  /\ (fop = "NewFrameError" =>
        /\ fout.err = "nil"
        /\ ~fout.panic
        /\ fout.frame.sid = fin.sid
        /\ fout.n = fin.n
        /\ fout.data = fin.body.bytes)

C21_Witness ==
  /\ fop = "NewFrameError"
  /\ fin.n = U32(32768, 1)
  /\ fin.body.bytes = << 0, 255 >>
  /\ fout.frame.body.bytes = << 128, 0, 0, 1, 0, 255 >>
  /\ fout.n = U32(32768, 1)
  /\ fout.data = << 0, 255 >>
====
